---- MODULE Spec2Model ----
(***************************************************************************)
(* Model of the Arrow IPC FileWriter                                       *)
(* (crates/polars-arrow/src/io/ipc/write/writer.rs).                       *)
(*                                                                         *)
(* Byte buffers are modelled by their lengths and their identity; the sink *)
(* is the sequence of the segments that were written to it, in order, each *)
(* with its byte count.  A sink write that fails leaves a "torn" segment   *)
(* holding the bytes that reached the sink before the error.               *)
(*                                                                         *)
(* The framer, the encoder with its dictionary tracker and the schema      *)
(* serializers live outside writer.rs; they are modelled as the            *)
(* specification describes them.  Sizes stay far below the i32 / i64 /     *)
(* usize widths of the casts in the source, so no cast truncates.  The     *)
(* ipc_fields argument of write only reaches the encoder and is part of    *)
(* the batch here.                                                         *)
(***************************************************************************)
EXTENDS Integers, Sequences, FiniteSets, TLC

\* ---------------------------------------------------------------- bounds
\* Calls that pass their state check (the others change nothing).
MaxCalls == 3
\* Sink writes that fail in one behaviour.
MaxIoFailures == 1

\* ------------------------------------------------------------- constants
\* ARROW_MAGIC_V2 is 6 bytes, followed by 2 pad bytes: 8 bytes in all.
MagicLen == 6
PadLen == 2
HeaderLen == 8
\* (footer_data.len() as i32).to_le_bytes()
FooterLenBytes == 4
\* The framer's alignment, its length prefix and the continuation marker.
Alignment == 8
PrefixSize == 8
ContinuationLen == 4

\* ------------------------------------------------------- encoded messages
NoCustom == "none"
CustomValues == {"md"}

\* EncodedData { ipc_message, arrow_data }: the two buffers by length, with
\* what the message is about (tag, dictionary id, dictionary content and the
\* custom metadata a schema serialization embeds).
Msg(tag, meta, body, id, content, custom) ==
    [tag |-> tag, ipc_message |-> meta, arrow_data |-> body,
     id |-> id, content |-> content, custom |-> custom]

\* EncodedData::default()
EmptyEncodedData == Msg("empty", 0, 0, 0, "none", NoCustom)

DictIds == {1, 2}

ContentBytes(content) == IF content = "a" THEN 4 ELSE 12

\* The dictionary message the encoder produces for one dictionary column.
DictionaryMessage(id, content) ==
    Msg("dictionary", 5, ContentBytes(content), id, content, NoCustom)

Col(id, content) == [id |-> id, content |-> content]

\* A batch is the sequence of its dictionary columns; its plain columns are
\* the same in every batch.
Batches ==
    { <<>>, <<Col(1, "a")>>, <<Col(1, "b")>>, <<Col(2, "a"), Col(1, "b")>> }

\* The record-batch message the encoder produces for a batch.
RecordMessage(batch) == Msg("record", 11, 5, 0, "none", NoCustom)

\* Pre-encoded messages a caller hands to write_encoded directly.
DictionaryInputs ==
    { <<>>,
      <<DictionaryMessage(1, "a")>>,
      <<DictionaryMessage(2, "a"), DictionaryMessage(1, "b")>> }
RecordInputs == { Msg("record", 3, 0, 0, "none", NoCustom) }

\* schema_to_bytes / serialize_schema: the schema with the custom metadata
\* it is given embedded.
schema_to_bytes(custom) ==
    Msg("schema", 12 + (IF custom = NoCustom THEN 0 ELSE 7), 0, 0, "none", custom)

\* ------------------------------------------------------------ the framer
AlignUp(n) == ((n + (Alignment - 1)) \div Alignment) * Alignment

\* write_message returns (metadata bytes written, body bytes written), both
\* with their padding; the metadata count includes the length prefix.
write_message(encoded) ==
    [meta |-> AlignUp(PrefixSize + encoded.ipc_message),
     data |-> AlignUp(encoded.arrow_data)]

FramedSize(encoded) ==
    write_message(encoded).meta + write_message(encoded).data

\* ---------------------------------------------------------- sink segments
Seg(kind, len, msg, dicts, recs, value) ==
    [kind |-> kind, len |-> len, msg |-> msg,
     dictionaries |-> dicts, record_batches |-> recs, value |-> value]

MagicSeg == Seg("magic", MagicLen, EmptyEncodedData, <<>>, <<>>, 0)
PadSeg == Seg("pad", PadLen, EmptyEncodedData, <<>>, <<>>, 0)
FrameSeg(encoded) == Seg("frame", FramedSize(encoded), encoded, <<>>, <<>>, 0)
TornSeg(k) == Seg("torn", k, EmptyEncodedData, <<>>, <<>>, 0)

\* write_continuation(writer, 0): the end-of-stream marker.
write_continuation == Seg("continuation", ContinuationLen, EmptyEncodedData, <<>>, <<>>, 0)

\* Builder::finish(&root): the encoded footer's byte count.
FooterSize(root) ==
    16 + root.schema.ipc_message
       + (24 * (Len(root.dictionaries) + Len(root.record_batches)))

FooterSeg(root) ==
    Seg("footer", FooterSize(root), root.schema,
        root.dictionaries, root.record_batches, 0)
FooterLenSeg(n) == Seg("footer_len", FooterLenBytes, EmptyEncodedData, <<>>, <<>>, n)

RECURSIVE SumLen(_)
SumLen(segs) == IF segs = <<>> THEN 0 ELSE Head(segs).len + SumLen(Tail(segs))

\* Bytes a failed write_all of n bytes may have left in the sink.
TornLens(n) == IF n = 0 THEN {0} ELSE {0, n - 1}

\* ------------------------------------------------------------------ state
VARIABLES
    writer,                 \* the sink: the segments written so far
    block_offsets,
    dictionary_blocks,
    record_blocks,
    state,                  \* "None", "Started", "Finished"
    dictionary_tracker,
    encoded_message,        \* the scratch buffer
    custom_schema_metadata,
    result,                 \* what the last call returned
    calls,                  \* the calls that passed their state check
    io_failures,            \* sink writes that failed so far
    blocks_log              \* the blocks of both tables, in push order

vars ==
    <<writer, block_offsets, dictionary_blocks, record_blocks, state,
      dictionary_tracker, encoded_message, custom_schema_metadata,
      result, calls, io_failures, blocks_log>>

\* What a call that fails its state check leaves alone.
fields ==
    <<writer, block_offsets, dictionary_blocks, record_blocks, state,
      dictionary_tracker, encoded_message, custom_schema_metadata,
      calls, io_failures, blocks_log>>

Call(op, res, batch, ndicts) ==
    [op |-> op, result |-> res, batch |-> batch, ndicts |-> ndicts]

\* FileWriter::new
\* A tracker that lets a dictionary id be given new content.
new_dictionary_tracker_replacing ==
    [dictionaries |-> [id \in DictIds |-> "none"], cannot_replace |-> FALSE]

\* The tracker built by `new`: no dictionary seen, replacement forbidden.
new_dictionary_tracker ==
    [dictionaries |-> [id \in DictIds |-> "none"], cannot_replace |-> TRUE]

Init ==
    /\ writer = <<>>
    /\ block_offsets = 0
    /\ dictionary_blocks = <<>>
    /\ record_blocks = <<>>
    /\ state = "None"
    /\ dictionary_tracker = new_dictionary_tracker
    /\ encoded_message = EmptyEncodedData
    /\ custom_schema_metadata = NoCustom
    /\ result = "ok"
    /\ calls = <<>>
    /\ io_failures = 0
    /\ blocks_log = <<>>

\* ------------------------------------------------------------ sink writes
\* Which of n sink writes fails: 0 means none.
FailPoints(n) == IF io_failures < MaxIoFailures THEN 0 .. n ELSE {0}

\* The sink after the writes `segs`, of which write number `fail` fails
\* having written `torn` bytes (a failing flush is write Len(segs) + 1).
SinkAfter(segs, fail, torn) ==
    IF fail = 0 \/ fail > Len(segs)
    THEN writer \o segs
    ELSE writer \o SubSeq(segs, 1, fail - 1)
                \o (IF torn = 0 THEN <<>> ELSE <<TornSeg(torn)>>)

TornChoices(segs, fail) ==
    IF fail = 0 \/ fail > Len(segs) THEN {0} ELSE TornLens(segs[fail].len)

CanCall == Len(calls) < MaxCalls

\* ------------------------------------------------------------------ start
start_precondition_unchecked == TRUE
start_precondition == state = "None"

\* The writes of start with the custom metadata put into the schema message.
start_writes_with_custom ==
    <<MagicSeg, PadSeg, FrameSeg(schema_to_bytes(custom_schema_metadata))>>

start_writes_without_pad == <<MagicSeg, FrameSeg(schema_to_bytes(NoCustom))>>

start_writes == <<MagicSeg, PadSeg, FrameSeg(schema_to_bytes(NoCustom))>>

start_offset_without_header(fm) == block_offsets + fm.meta + fm.data
start_offset(fm) == block_offsets + fm.meta + fm.data + HeaderLen

start ==
    IF ~start_precondition
    THEN /\ result' = "oos"
         /\ UNCHANGED fields
    ELSE /\ CanCall
         /\ \E fail \in FailPoints(Len(start_writes)) :
            \E torn \in TornChoices(start_writes, fail) :
               /\ writer' = SinkAfter(start_writes, fail, torn)
               /\ IF fail = 0
                  THEN /\ block_offsets' =
                              start_offset(write_message(schema_to_bytes(NoCustom)))
                       /\ state' = "Started"
                       /\ result' = "ok"
                       /\ io_failures' = io_failures
                  ELSE /\ result' = "io"
                       /\ io_failures' = io_failures + 1
                       /\ UNCHANGED <<block_offsets, state>>
               /\ calls' = Append(calls, Call("start", result', <<>>, 0))
         /\ UNCHANGED <<dictionary_blocks, record_blocks, dictionary_tracker,
                        encoded_message, custom_schema_metadata, blocks_log>>

\* ---------------------------------------------------- the block tables
dictionary_block(off, fm) ==
    [offset |-> off, meta_data_length |-> fm.meta, body_length |-> fm.data]

dictionary_advance_meta_only(off, fm) == off + fm.meta
dictionary_advance(off, fm) == off + fm.meta + fm.data

record_block(off, fm) ==
    [offset |-> off, meta_data_length |-> fm.meta, body_length |-> fm.data]

record_advance(off, fm) == off + fm.meta + fm.data

\* self.dictionary_blocks.push(block), self.record_blocks.push(block)
\* A push that puts the new Block ahead of the earlier ones.
dictionary_blocks_push_front(table, block) == <<block>> \o table

\* A push that keeps only the new Block.
record_blocks_push_replacing(table, block) == <<block>>

dictionary_blocks_push(table, block) == Append(table, block)
record_blocks_push_dropped(table, block) == table
record_blocks_push(table, block) == Append(table, block)

\* The loop of write_encoded over the dictionary messages that were framed:
\* the table after its pushes, starting at offset off.
RECURSIVE dictionary_loop(_, _, _)
dictionary_loop(dicts, off, table) ==
    IF dicts = <<>>
    THEN table
    ELSE dictionary_loop(
             Tail(dicts),
             dictionary_advance(off, write_message(Head(dicts))),
             dictionary_blocks_push(
                 table, dictionary_block(off, write_message(Head(dicts)))))

\* block_offsets after that loop.
RECURSIVE dictionary_loop_offset(_, _)
dictionary_loop_offset(dicts, off) ==
    IF dicts = <<>>
    THEN off
    ELSE dictionary_loop_offset(Tail(dicts),
                                dictionary_advance(off, write_message(Head(dicts))))

Log(table, blocks) == [i \in 1 .. Len(blocks) |-> [table |-> table, block |-> blocks[i]]]

Frames(msgs) == [i \in 1 .. Len(msgs) |-> FrameSeg(msgs[i])]

Min(a, b) == IF a < b THEN a ELSE b

\* How many of the n dictionary messages get a Block when sink write number
\* `fail` fails (0: none): the `?` on write_message returns before the push,
\* so only the messages framed before the failing one.
framed_including_failed(fail, n) == IF fail = 0 THEN n ELSE Min(fail, n)

framed_before(fail, n) == IF fail = 0 THEN n ELSE Min(fail - 1, n)

\* write_encoded past its state check: frames the dictionary messages, then
\* the record message (write_encoded_record_batch); sink write number `fail`
\* fails (0: none), and the `?` returns at once.
write_encoded_body(dicts, msg, fail, torn) ==
    LET segs    == Frames(dicts) \o <<FrameSeg(msg)>>
        framed  == framed_before(fail, Len(dicts))
        done    == SubSeq(dicts, 1, framed)
        dtable  == dictionary_loop(done, block_offsets, dictionary_blocks)
        dblocks == SubSeq(dtable, Len(dictionary_blocks) + 1, Len(dtable))
        off     == dictionary_loop_offset(done, block_offsets)
        fm      == write_message(msg)
    IN  /\ writer' = SinkAfter(segs, fail, torn)
        /\ dictionary_blocks' = dtable
        /\ IF fail = 0
           THEN /\ record_blocks' = record_blocks_push(record_blocks, record_block(off, fm))
                /\ block_offsets' = record_advance(off, fm)
                /\ blocks_log' = blocks_log \o Log("dictionary", dblocks)
                                    \o Log("record", <<record_block(off, fm)>>)
                /\ result' = "ok"
                /\ io_failures' = io_failures
           ELSE /\ record_blocks' = record_blocks
                /\ block_offsets' = off
                /\ blocks_log' = blocks_log \o Log("dictionary", dblocks)
                /\ result' = "io"
                /\ io_failures' = io_failures + 1

\* ----------------------------------------------- write_encoded_record_batch
\* No state check: the record message is framed in any state.
write_encoded_record_batch ==
    /\ CanCall
    /\ \E msg \in RecordInputs :
       \E fail \in FailPoints(1) :
       \E torn \in TornChoices(<<FrameSeg(msg)>>, fail) :
          /\ write_encoded_body(<<>>, msg, fail, torn)
          /\ calls' = Append(calls, Call("write_encoded_record_batch", result', <<>>, 0))
    /\ UNCHANGED <<state, dictionary_tracker, encoded_message,
                   custom_schema_metadata>>

\* ------------------------------------------------------------ write_encoded
write_encoded_precondition == state = "Started"

write_encoded ==
    IF ~write_encoded_precondition
    THEN /\ result' = "oos"
         /\ UNCHANGED fields
    ELSE /\ CanCall
         /\ \E dicts \in DictionaryInputs :
            \E msg \in RecordInputs :
            \E fail \in FailPoints(Len(dicts) + 1) :
            \E torn \in TornChoices(Frames(dicts) \o <<FrameSeg(msg)>>, fail) :
               /\ write_encoded_body(dicts, msg, fail, torn)
               /\ calls' = Append(calls, Call("write_encoded", result', <<>>, Len(dicts)))
         /\ UNCHANGED <<state, dictionary_tracker, encoded_message,
                        custom_schema_metadata>>

\* ------------------------------------------------- the dictionary tracker
\* The encoder asks the tracker about each dictionary column in turn:
\* unseen id -> emit and record; same content -> skip; changed content ->
\* error when cannot_replace, else emit a replacement and record it.
RECURSIVE encode_dictionaries(_, _, _)
encode_dictionaries(cols, tracker, out) ==
    IF cols = <<>>
    THEN [err |-> FALSE, tracker |-> tracker, dicts |-> out]
    ELSE LET c    == Head(cols)
             seen == tracker.dictionaries[c.id]
             put  == [tracker EXCEPT !.dictionaries[c.id] = c.content]
         IN  IF seen = "none"
             THEN encode_dictionaries(Tail(cols), put,
                                      Append(out, DictionaryMessage(c.id, c.content)))
             ELSE IF seen = c.content
             THEN encode_dictionaries(Tail(cols), tracker, out)
             ELSE IF tracker.cannot_replace
             THEN [err |-> TRUE, tracker |-> tracker, dicts |-> out]
             ELSE encode_dictionaries(Tail(cols), put,
                                      Append(out, DictionaryMessage(c.id, c.content)))

\* encode_chunk_amortized(chunk, ipc_fields, tracker, options, scratch):
\* the dictionary messages to write, and the record message in the scratch.
encode_chunk_amortized(batch, tracker) ==
    LET r == encode_dictionaries(batch, tracker, <<>>)
    IN  [err |-> r.err, tracker |-> r.tracker, dicts |-> r.dicts,
         msg |-> RecordMessage(batch)]

\* ------------------------------------------------------------------ write
write_precondition_unchecked == TRUE
write_precondition == state = "Started"

write_tracker_fresh ==
    [dictionaries |-> [id \in DictIds |-> "none"], cannot_replace |-> TRUE]

\* The tracker write hands to the encoder: the writer's own.
write_tracker == dictionary_tracker

\* The buffer write frames as the record message: the scratch buffer as it
\* was before the encoder refilled it.
write_framed_stale(enc) == encoded_message

\* The buffer write frames as the record message: the scratch buffer taken
\* after the encoder filled it.
write_framed_message(enc) == enc.msg

write ==
    IF ~write_precondition
    THEN /\ result' = "oos"
         /\ UNCHANGED fields
    ELSE /\ CanCall
         /\ \E batch \in Batches :
            LET enc == encode_chunk_amortized(batch, write_tracker)
            IN  /\ dictionary_tracker' = enc.tracker
                /\ IF enc.err
                   THEN /\ result' = "dictionary"
                        /\ UNCHANGED <<writer, block_offsets, dictionary_blocks,
                                       record_blocks, encoded_message,
                                       io_failures, blocks_log>>
                   ELSE \E fail \in FailPoints(Len(enc.dicts) + 1) :
                        \E torn \in TornChoices(Frames(enc.dicts)
                                   \o <<FrameSeg(write_framed_message(enc))>>, fail) :
                           /\ write_encoded_body(enc.dicts, write_framed_message(enc),
                                                 fail, torn)
                           /\ encoded_message' =
                                  IF fail = 0 THEN write_framed_message(enc)
                                  ELSE EmptyEncodedData
                /\ calls' = Append(calls, Call("write", result', batch, Len(enc.dicts)))
         /\ UNCHANGED <<state, custom_schema_metadata>>

\* ----------------------------------------------------------------- finish
finish_precondition_unchecked == TRUE
finish_precondition == state = "Started"

\* schema::serialize_schema(schema, ipc_fields, custom_schema_metadata)
serialize_schema(custom) ==
    Msg("schema", 12 + (IF custom = NoCustom THEN 0 ELSE 7), 0, 0, "none", custom)

\* The footer with the two tables listed under each other's name.
footer_root_swapped ==
    [version |-> "V5",
     schema |-> serialize_schema(custom_schema_metadata),
     dictionaries |-> record_blocks,
     record_batches |-> dictionary_blocks,
     custom_metadata |-> NoCustom]

footer_root ==
    [version |-> "V5",
     schema |-> serialize_schema(custom_schema_metadata),
     dictionaries |-> dictionary_blocks,
     record_batches |-> record_blocks,
     custom_metadata |-> NoCustom]

\* The writes of finish with the length field ahead of the footer bytes.
finish_writes_length_first(root) ==
    <<write_continuation, FooterLenSeg(FooterSize(root)), FooterSeg(root), MagicSeg>>

finish_writes(root) ==
    <<write_continuation, FooterSeg(root), FooterLenSeg(FooterSize(root)), MagicSeg>>

\* Sink write 5 is the flush.  The tables are taken when the footer is
\* built, after the end-of-stream marker was written.
finish ==
    IF ~finish_precondition
    THEN /\ result' = "oos"
         /\ UNCHANGED fields
    ELSE /\ CanCall
         /\ \E fail \in FailPoints(Len(finish_writes(footer_root)) + 1) :
            \E torn \in TornChoices(finish_writes(footer_root), fail) :
               /\ writer' = SinkAfter(finish_writes(footer_root), fail, torn)
               /\ IF fail = 1
                  THEN UNCHANGED <<dictionary_blocks, record_blocks, blocks_log>>
                  ELSE /\ dictionary_blocks' = <<>>
                       /\ record_blocks' = <<>>
                       /\ blocks_log' = <<>>
               /\ IF fail = 0
                  THEN /\ state' = "Finished"
                       /\ result' = "ok"
                       /\ io_failures' = io_failures
                  ELSE /\ state' = state
                       /\ result' = "io"
                       /\ io_failures' = io_failures + 1
               /\ calls' = Append(calls, Call("finish", result', <<>>, 0))
         /\ UNCHANGED <<block_offsets, dictionary_tracker, encoded_message,
                        custom_schema_metadata>>

\* ------------------------------------------------------- scratch, metadata
\* A buffer a caller hands back is one an earlier writer gave out.
ScratchInputs == {RecordMessage(<<>>)}

get_scratches ==
    /\ encoded_message' = EmptyEncodedData
    /\ result' = "ok"
    /\ UNCHANGED <<writer, block_offsets, dictionary_blocks, record_blocks, state,
                   dictionary_tracker, custom_schema_metadata, calls,
                   io_failures, blocks_log>>

set_scratches ==
    \E scratches \in ScratchInputs :
       /\ encoded_message' = scratches
       /\ result' = "ok"
       /\ UNCHANGED <<writer, block_offsets, dictionary_blocks, record_blocks,
                      state, dictionary_tracker, custom_schema_metadata, calls,
                      io_failures, blocks_log>>

\* No state check: the metadata is replaced in any state.
set_custom_schema_metadata ==
    \E custom_metadata \in CustomValues :
       /\ custom_schema_metadata' = custom_metadata
       /\ result' = "ok"
       /\ UNCHANGED <<writer, block_offsets, dictionary_blocks, record_blocks,
                      state, dictionary_tracker, encoded_message, calls,
                      io_failures, blocks_log>>

Next ==
    \/ start
    \/ write
    \/ write_encoded
    \/ write_encoded_record_batch
    \/ finish
    \/ get_scratches
    \/ set_scratches
    \/ set_custom_schema_metadata

Spec == Init /\ [][Next]_vars

\* ======================================================== properties
\* A call that is rejected: a sequencing error, and nothing of the writer or
\* the sink has changed.
Rejected ==
    /\ result' = "oos"
    /\ UNCHANGED <<writer, block_offsets, dictionary_blocks, record_blocks, state>>

LastCall == calls[Len(calls)]

\* The step is a call of `op` that passed its state check.
Called(op) ==
    /\ Len(calls') = Len(calls) + 1
    /\ calls'[Len(calls')].op = op

\* C1: the state changes only None -> Started, by a successful start, and
\* Started -> Finished, by a successful finish; Finished is never left, never
\* reached from None, and write / write_encoded leave the state alone.
C1_Lifecycle ==
    [][ /\ (state' # state) =>
              \/ /\ state = "None" /\ state' = "Started"
                 /\ Called("start") /\ result' = "ok"
              \/ /\ state = "Started" /\ state' = "Finished"
                 /\ Called("finish") /\ result' = "ok"
        /\ (state = "Finished") => (state' = "Finished")
        /\ ~(state = "None" /\ state' = "Finished")
        /\ (state' # state) => ~(write \/ write_encoded)
      ]_vars

\* A file that was started and finished.
C1_Witness ==
    /\ state = "Finished"
    /\ Len(calls) = 2
    /\ calls[1].op = "start" /\ calls[2].op = "finish"

\* C2: every operation that writes to the sink or changes block_offsets or a
\* table is rejected outside the state it requires; so in state None the sink
\* is empty, block_offsets is 0 and the tables are empty, and in state
\* Finished the sink never changes (stated for runs in which no sink write
\* has failed).
C2_StateCheckedFirst ==
    [][ /\ (state # "None" /\ start) => Rejected
        /\ (state # "Started" /\ write) => Rejected
        /\ (state # "Started" /\ write_encoded) => Rejected
        /\ (state # "Started" /\ write_encoded_record_batch) => Rejected
        /\ (state # "Started" /\ finish) => Rejected
        /\ (state' = "None" /\ io_failures' = 0) =>
               /\ writer' = <<>> /\ block_offsets' = 0
               /\ dictionary_blocks' = <<>> /\ record_blocks' = <<>>
        /\ (state = "Finished") => (writer' = writer)
      ]_vars

\* C3: write, write_encoded and finish outside state Started are rejected
\* with a sequencing error: sink, block_offsets, tables and state unchanged.
C3_NotStartedRejected ==
    [][ (state # "Started" /\ (write \/ write_encoded \/ finish)) => Rejected ]_vars

\* write, write_encoded or finish was rejected before start.
C3_Witness ==
    /\ state = "None"
    /\ result = "oos"

\* ------------------------------------------------------ reading the sink
SinkBytes == SumLen(writer)

\* The places in the sink of the complete frames of one kind of message.
FrameIndices(tag) ==
    SelectSeq([i \in 1 .. Len(writer) |-> i],
              LAMBDA i : writer[i].kind = "frame" /\ writer[i].msg.tag = tag)

\* The position in the file of the first byte of the i-th such frame.
FramePosition(tag, i) == SumLen(SubSeq(writer, 1, FrameIndices(tag)[i] - 1))

SchemaCount == Len(FrameIndices("schema"))

\* Magic tokens in the sink that precede a schema frame.
MagicBeforeSchema ==
    Cardinality({ i \in 1 .. Len(writer) :
                    /\ writer[i].kind = "magic"
                    /\ \E j \in i + 1 .. Len(writer) :
                          writer[j].kind = "frame" /\ writer[j].msg.tag = "schema" })

NoFailedStart ==
    \A i \in 1 .. Len(calls) : ~(calls[i].op = "start" /\ calls[i].result = "io")

\* C4 as stated: start outside state None is rejected, and so the leading
\* magic token and the schema message are in the sink exactly once.
C4_Original ==
    [][ /\ (state # "None" /\ start) => Rejected
        /\ (state' \in {"Started", "Finished"}) =>
               (SchemaCount' = 1 /\ MagicBeforeSchema' = 1)
      ]_vars

\* C4, amended: start outside state None is rejected and writes nothing; once
\* the writer is Started or Finished the schema message is in the sink
\* exactly once, and so is the magic token that precedes it unless an earlier
\* start failed with an I/O error after writing it.
C4_StartOnce ==
    [][ /\ (state # "None" /\ start) => Rejected
        /\ (state' \in {"Started", "Finished"}) =>
               /\ SchemaCount' = 1
               /\ NoFailedStart' => (MagicBeforeSchema' = 1)
      ]_vars

\* start was called on a started writer and rejected.
C4_Witness ==
    /\ state = "Started"
    /\ result = "oos"
    /\ SchemaCount = 1

\* C5: a finished file written without I/O failures is: magic, pad, schema
\* frame, groups of dictionary frames closed by a record frame, continuation
\* marker, footer, footer length, magic.
FileLayout(w) ==
    LET n == Len(w)
    IN  /\ n >= 7
        /\ w[1].kind = "magic"
        /\ w[2].kind = "pad"
        /\ w[3].kind = "frame" /\ w[3].msg.tag = "schema"
        /\ \A i \in 4 .. n - 4 :
              w[i].kind = "frame" /\ w[i].msg.tag \in {"dictionary", "record"}
        /\ (n - 4 >= 4) => (w[n - 4].msg.tag = "record")
        /\ w[n - 3].kind = "continuation"
        /\ w[n - 2].kind = "footer"
        /\ w[n - 1].kind = "footer_len"
        /\ w[n].kind = "magic"

C5_FileLayout ==
    (state = "Finished" /\ io_failures = 0) => FileLayout(writer)

\* C6 as stated, on the runs in which no sink write has failed: in every
\* state (None, Started and Finished) block_offsets is the number of bytes
\* written to the sink.
C6_Original == (io_failures = 0) => (block_offsets = SinkBytes)

\* Every block of a table starts where its frame starts in the file.
BlocksAtFramePositions ==
    /\ Len(dictionary_blocks) = Len(FrameIndices("dictionary"))
    /\ Len(record_blocks) = Len(FrameIndices("record"))
    /\ \A i \in 1 .. Len(dictionary_blocks) :
          dictionary_blocks[i].offset = FramePosition("dictionary", i)
    /\ \A i \in 1 .. Len(record_blocks) :
          record_blocks[i].offset = FramePosition("record", i)

BlockEnd(b) == b.offset + b.meta_data_length + b.body_length

\* The blocks a step pushes: the first at block_offsets, each next one at
\* the end of the one before.
PushedAtRunningOffset ==
    (Len(blocks_log') > Len(blocks_log)) =>
        \A i \in Len(blocks_log) + 1 .. Len(blocks_log') :
            blocks_log'[i].block.offset =
                IF i = Len(blocks_log) + 1
                THEN block_offsets
                ELSE BlockEnd(blocks_log'[i - 1].block)

\* C6, amended: block_offsets never decreases; every pushed block has the
\* value of block_offsets at the moment its frame started; and while the
\* writer is not Finished and no sink write has failed, block_offsets is the
\* number of bytes written to the sink and every block's offset is the
\* position of its frame's first byte in the file.
C6_RunningOffset ==
    [][ /\ block_offsets' >= block_offsets
        /\ PushedAtRunningOffset
        /\ (state' # "Finished" /\ io_failures' = 0) =>
               (block_offsets' = SinkBytes' /\ BlocksAtFramePositions')
      ]_vars

\* Dictionary and record blocks were pushed after the header.
C6_Witness ==
    /\ state = "Started"
    /\ io_failures = 0
    /\ Len(dictionary_blocks) >= 1
    /\ Len(record_blocks) >= 1
    /\ block_offsets = SinkBytes

TableOf(table) ==
    LET picked == SelectSeq(blocks_log, LAMBDA e : e.table = table)
    IN  [i \in 1 .. Len(picked) |-> picked[i].block]

\* C7: the blocks of the two tables, in the order they were pushed, have
\* strictly increasing offsets and none reaches into the next.
C7_BlocksDisjoint ==
    /\ TableOf("dictionary") = dictionary_blocks
    /\ TableOf("record") = record_blocks
    /\ \A i \in 1 .. Len(blocks_log) - 1 :
          /\ blocks_log[i].block.offset < blocks_log[i + 1].block.offset
          /\ BlockEnd(blocks_log[i].block) <= blocks_log[i + 1].block.offset

\* Blocks of several calls, in both tables.
C7_Witness ==
    /\ Len(dictionary_blocks) >= 2
    /\ Len(record_blocks) >= 2

\* ------------------------------------------------------- finished files
AllOk == \A i \in 1 .. Len(calls) : calls[i].result = "ok"

\* start, then successful calls of the operations in `ops`, then finish.
RunOf(ops) ==
    /\ state = "Finished"
    /\ Len(calls) >= 2
    /\ AllOk
    /\ calls[1].op = "start"
    /\ LastCall.op = "finish"
    /\ \A i \in 2 .. Len(calls) - 1 : calls[i].op \in ops

\* The footer of a finished file: the third segment from the end.
Footer == writer[Len(writer) - 2]

RECURSIVE BlocksBytes(_)
BlocksBytes(blocks) ==
    IF blocks = <<>>
    THEN 0
    ELSE Head(blocks).meta_data_length + Head(blocks).body_length
         + BlocksBytes(Tail(blocks))

\* C8: after start, successful write / write_encoded calls and a successful
\* finish, the sink holds 8 bytes of header, the framed schema message, the
\* framed sizes of all dictionary and record messages (as the footer's blocks
\* give them), the 4-byte continuation marker, the footer, its 4-byte length
\* and the magic token.
C8_FileSize ==
    RunOf({"write", "write_encoded"}) =>
        SinkBytes = HeaderLen
                    + FramedSize(schema_to_bytes(NoCustom))
                    + BlocksBytes(Footer.dictionaries)
                    + BlocksBytes(Footer.record_batches)
                    + ContinuationLen
                    + Footer.len
                    + FooterLenBytes
                    + MagicLen

\* A finished file with dictionary and record messages in it.
C8_Witness ==
    /\ RunOf({"write", "write_encoded"})
    /\ Len(calls) = 3
    /\ Len(Footer.dictionaries) >= 1
    /\ Len(Footer.record_batches) = 1

\* C9: start, N successful writes of batches without dictionary columns and
\* finish leave a footer with N record blocks and no dictionary block.
PlainRun ==
    /\ RunOf({"write"})
    /\ \A i \in 2 .. Len(calls) - 1 : calls[i].batch = <<>>

Columns(batch) == { batch[i] : i \in 1 .. Len(batch) }

\* Dictionary ids that two batches carry with the same content.
SharedIds(b1, b2) == { c.id : c \in Columns(b1) \cap Columns(b2) }

IsDictionaryFrame(seg, id) ==
    seg.kind = "frame" /\ seg.msg.tag = "dictionary" /\ seg.msg.id = id

\* Entries of the dictionary table whose frame is a dictionary of `id`.
EntriesFor(id) ==
    { i \in 1 .. Len(dictionary_blocks) :
        /\ i <= Len(FrameIndices("dictionary"))
        /\ writer[FrameIndices("dictionary")[i]].msg.id = id }

OnlyStartAndWrites ==
    /\ AllOk
    /\ calls[1].op = "start"
    /\ \A i \in 2 .. Len(calls) : calls[i].op = "write"

\* C10: when a successful write follows a successful write and both batches
\* carry dictionary `id` with the same content, the second write frames no
\* dictionary message for `id`; after start and writes only, the dictionary
\* table has exactly one entry for `id`.
C10_DictionaryOnce ==
    [][ ( /\ Called("write") /\ result' = "ok"
          /\ Len(calls) >= 1
          /\ LastCall.op = "write" /\ LastCall.result = "ok" ) =>
            \A id \in SharedIds(LastCall.batch, calls'[Len(calls')].batch) :
               /\ \A i \in Len(writer) + 1 .. Len(writer') :
                     ~IsDictionaryFrame(writer'[i], id)
               /\ OnlyStartAndWrites' =>
                     /\ Len(dictionary_blocks') = Len(FrameIndices("dictionary")')
                     /\ Cardinality(EntriesFor(id)') = 1
      ]_vars

\* Two writes of the same dictionary in a row; one dictionary block.
C10_Witness ==
    /\ Len(calls) = 3
    /\ AllOk
    /\ calls[2].op = "write" /\ calls[3].op = "write"
    /\ calls[2].batch = <<Col(1, "a")>> /\ calls[3].batch = <<Col(1, "a")>>
    /\ Len(dictionary_blocks) = 1
    /\ Len(record_blocks) = 2

\* ------------------------------------------------------------------- C11
\* The batch carries a dictionary id the tracker has seen with other content.
ReplacesDictionary(batch) ==
    \E i \in 1 .. Len(batch) :
       dictionary_tracker.dictionaries[batch[i].id] \notin {"none", batch[i].content}

\* C11: the writer's tracker always forbids replacement; a write whose batch
\* gives an already-seen dictionary id new content fails with the dictionary
\* error, and a write that fails so writes nothing to the sink, appends no
\* Block to either table and leaves block_offsets as it was.
C11_ReplacementRejected ==
    [][/\ dictionary_tracker'.cannot_replace
       /\ Called("write") =>
             /\ ReplacesDictionary(calls'[Len(calls')].batch) => result' = "dictionary"
             /\ result' = "dictionary" =>
                   UNCHANGED <<writer, block_offsets, dictionary_blocks,
                               record_blocks, state>>]_vars

\* A write was refused for its second column after its first column held a
\* dictionary never seen before, with one dictionary Block already recorded.
C11_Witness ==
    /\ calls # <<>>
    /\ LastCall.op = "write"
    /\ LastCall.result = "dictionary"
    /\ Len(LastCall.batch) = 2
    /\ Len(dictionary_blocks) = 1
    /\ FrameIndices("record") # <<>>

\* ------------------------------------------------------------------- C12
\* The footer segment written by the step, third from the end of the sink.
FooterWritten == writer'[Len(writer') - 2]

\* The Blocks of one table are those of the complete frames of one kind in
\* the sink before the step, in the order of the frames.
ListsFrames(table, tag) ==
    /\ Len(table) = Len(FrameIndices(tag))
    /\ \A i \in 1 .. Len(table) :
          /\ table[i].offset = FramePosition(tag, i)
          /\ table[i].meta_data_length = write_message(writer[FrameIndices(tag)[i]].msg).meta
          /\ table[i].body_length = write_message(writer[FrameIndices(tag)[i]].msg).data

Appended == SubSeq(writer', Len(writer) + 1, Len(writer'))

C14_MetadataAfterStartRejected ==
    [][(state # "None" /\ set_custom_schema_metadata) =>
          /\ result' = "oos"
          /\ UNCHANGED custom_schema_metadata]_vars

\* ------------------------------------------------------------------- C15
\* C15: the 4-byte footer length holds exactly the number of footer bytes
\* written immediately before it: wherever the length field is in the sink
\* the segment before it is a footer and the field's value is that footer's
\* byte count, and a successful finish ends the sink with the footer bytes,
\* the length field and the trailing magic, in this order.
C15_FooterLength ==
    [][/\ \A i \in 1 .. Len(writer') :
             writer'[i].kind = "footer_len" =>
                /\ i > 1
                /\ writer'[i].len = FooterLenBytes
                /\ writer'[i - 1].kind = "footer"
                /\ writer'[i].value = writer'[i - 1].len
       /\ (Called("finish") /\ result' = "ok") =>
             /\ Len(Appended) = 4
             /\ Appended[2].kind = "footer"
             /\ Appended[3].kind = "footer_len"
             /\ Appended[4] = MagicSeg]_vars

\* A finished file whose footer lists a Block, so that its length differs
\* from the length of an empty footer.
C15_Witness ==
    /\ state = "Finished"
    /\ LastCall.op = "finish"
    /\ writer[Len(writer) - 1].kind = "footer_len"
    /\ writer[Len(writer) - 1].value = FooterSize(
           [schema |-> Footer.msg, dictionaries |-> Footer.dictionaries,
            record_batches |-> Footer.record_batches])
    /\ Len(Footer.record_batches) > 0

\* ------------------------------------------------------------------- C16
\* The Blocks the step appended to a table.
NewBlocks(old, new) == SubSeq(new, Len(old) + 1, Len(new))

\* The Block a frame appended by the step must have: at the frame's place
\* counted from block_offsets, with the sizes the framer returned.
BlockOfAppended(i) ==
    [offset |-> block_offsets + SumLen(SubSeq(Appended, 1, i - 1)),
     meta_data_length |-> write_message(Appended[i].msg).meta,
     body_length |-> write_message(Appended[i].msg).data]

\* C16: a successful write_encoded with k dictionary messages frames the k
\* dictionary messages and then the record message, appends exactly k Blocks
\* to dictionary_blocks, in message order, and one Block to record_blocks,
\* and advances block_offsets by the sum of the k + 1 frame sizes; every
\* dictionary Block of the call has a smaller offset than its record Block.
C16_DictionariesBeforeRecord ==
    [][(Called("write_encoded") /\ result' = "ok") =>
          LET k == calls'[Len(calls')].ndicts
          IN  /\ Len(Appended) = k + 1
              /\ \A i \in 1 .. k : /\ Appended[i].kind = "frame"
                                   /\ Appended[i].msg.tag = "dictionary"
              /\ Appended[k + 1].kind = "frame"
              /\ Appended[k + 1].msg.tag = "record"
              /\ Len(dictionary_blocks') = Len(dictionary_blocks) + k
              /\ SubSeq(dictionary_blocks', 1, Len(dictionary_blocks)) = dictionary_blocks
              /\ \A i \in 1 .. k :
                    NewBlocks(dictionary_blocks, dictionary_blocks')[i] = BlockOfAppended(i)
              /\ record_blocks' = Append(record_blocks, BlockOfAppended(k + 1))
              /\ block_offsets' = block_offsets + SumLen(Appended)
              /\ \A i \in 1 .. k :
                    NewBlocks(dictionary_blocks, dictionary_blocks')[i].offset
                       < record_blocks'[Len(record_blocks')].offset]_vars

\* write_encoded succeeded with two dictionary messages.
C16_Witness ==
    /\ calls # <<>>
    /\ LastCall.op = "write_encoded"
    /\ LastCall.result = "ok"
    /\ LastCall.ndicts = 2
    /\ Len(dictionary_blocks) = 2

\* ------------------------------------------------------------------- C17
IsPrefix(old, new) ==
    /\ Len(old) <= Len(new)
    /\ SubSeq(new, 1, Len(old)) = old

C18_MetadataOnlyInFooter ==
    [][/\ \A i \in 1 .. Len(writer') :
             /\ writer'[i].msg.custom # NoCustom => writer'[i].kind = "footer"
             /\ (writer'[i].kind = "frame" /\ writer'[i].msg.tag = "schema") =>
                   writer'[i] = FrameSeg(schema_to_bytes(NoCustom))
       /\ (Called("start") /\ result' = "ok") =>
             Appended[Len(Appended)] = FrameSeg(schema_to_bytes(NoCustom))
       /\ (Called("finish") /\ result' = "ok") =>
             FooterWritten.msg = serialize_schema(custom_schema_metadata)]_vars

\* A finished file written from start with custom metadata set: its schema
\* frame is without the metadata, its footer schema carries it.
C18_Witness ==
    /\ state = "Finished"
    /\ LastCall.op = "finish"
    /\ custom_schema_metadata \in CustomValues
    /\ Footer.msg.custom = custom_schema_metadata
    /\ writer[3] = FrameSeg(schema_to_bytes(NoCustom))

\* ------------------------------------------------------------------- C19
\* The state is advanced only after every sink write of the operation
\* succeeded, and block_offsets is not advanced by a failed start.
StateAfterLastWrite ==
    /\ (Called("start") /\ result' = "io") =>
          /\ state' = "None"
          /\ block_offsets' = block_offsets
    /\ (Called("finish") /\ result' = "io") => state' = "Started"
    /\ (state' = "Finished" /\ state # "Finished") =>
          /\ Called("finish")
          /\ result' = "ok"
          /\ Len(Appended) = 4
          /\ Appended[4] = MagicSeg

\* C19: a start that fails with an I/O error leaves the state None and
\* block_offsets 0; a finish that fails on any of its sink writes or on the
\* flush leaves the state Started; the state becomes Finished only by a
\* finish whose trailing magic was written and whose flush succeeded.
C19_StateAfterLastWrite ==
    [][/\ StateAfterLastWrite
       /\ (Called("start") /\ result' = "io") => block_offsets' = 0]_vars

\* ------------------------------------------------------------------- C20
\* The frames the step wrote completely.
Completed == SelectSeq(Appended, LAMBDA seg : seg.kind = "frame")

\* C20: when write_encoded (called directly or by write) fails with an I/O
\* error at its j-th message, the j - 1 frames before it are complete in the
\* sink and are all dictionary frames; dictionary_blocks gained exactly
\* their Blocks, in order, record_blocks gained none, block_offsets advanced
\* by exactly the sizes of those j - 1 frames, nothing but torn bytes of the
\* failed frame follows them, and the state is still Started.
C20_NoBlockForFailedFrame ==
    [][((Called("write_encoded") \/ Called("write")) /\ result' = "io") =>
          LET done == Len(Completed)
          IN  /\ done <= calls'[Len(calls')].ndicts
              /\ SubSeq(Appended, 1, done) = Completed
              /\ Len(Appended) <= done + 1
              /\ \A i \in 1 .. done : Completed[i].msg.tag = "dictionary"
              /\ Len(dictionary_blocks') = Len(dictionary_blocks) + done
              /\ IsPrefix(dictionary_blocks, dictionary_blocks')
              /\ \A i \in 1 .. done :
                    NewBlocks(dictionary_blocks, dictionary_blocks')[i] = BlockOfAppended(i)
              /\ record_blocks' = record_blocks
              /\ block_offsets' = block_offsets + SumLen(Completed)
              /\ state = "Started"
              /\ state' = "Started"]_vars

\* write_encoded failed on the second of two dictionary messages, leaving
\* torn bytes after the first frame: one dictionary Block, no record Block.
C20_Witness ==
    /\ calls # <<>>
    /\ LastCall.op = "write_encoded"
    /\ LastCall.result = "io"
    /\ LastCall.ndicts = 2
    /\ Len(dictionary_blocks) = 1
    /\ record_blocks = <<>>
    /\ writer[Len(writer)].kind # "frame"
    /\ block_offsets < SinkBytes

====
